---- MODULE Spec2Model ----
(***************************************************************************)
(* download_playlist_mp3.py: a command-line front end around yt_dlp.       *)
(* One run of the script is modelled as a state machine: argument parsing, *)
(* the two prompts, output directory creation, FFmpeg resolution, the      *)
(* download function of the selected mode, and the exit code.              *)
(*                                                                         *)
(* A Python str is a sequence of one-element tokens.  The separators "/",  *)
(* "." and " " are tokens of their own; any other token ("ffmpeg", "mp3",  *)
(* "%(title)s", "u") stands for a run of characters that holds none of     *)
(* them.  The file system is POSIX and holds no symbolic links.            *)
(***************************************************************************)
EXTENDS Integers, Sequences, FiniteSets, TLC

\* Longest line typed at the mode prompt, and longest URL (typed or given).
MaxModeLen == 2
MaxUrlLen == 2

\* ------------------------------------------------------------------------
\* Optional[str]: None or a string; Python truthiness.
None == [some |-> FALSE, val |-> <<>>]
Some(s) == [some |-> TRUE, val |-> s]
Truthy(o) == o.some /\ o.val # <<>>
Or(a, b) == IF Truthy(a) THEN a ELSE b

StringsUpTo(A, n) == UNION {[1..k -> A] : k \in 0..n}

\* ------------------------------------------------------------------------
\* str methods used by the script.
RECURSIVE lstrip(_)
lstrip(s) == IF s # <<>> /\ Head(s) = " " THEN lstrip(Tail(s)) ELSE s

RECURSIVE rstrip(_)
rstrip(s) == IF s # <<>> /\ s[Len(s)] = " " THEN rstrip(SubSeq(s, 1, Len(s) - 1)) ELSE s

strip(s) == rstrip(lstrip(s))

LowerChar(c) == CASE c = "M" -> "m" [] c = "P" -> "p" [] OTHER -> c

lower(s) == [i \in 1..Len(s) |-> LowerChar(s[i])]

startswith(s, p) == Len(s) >= Len(p) /\ SubSeq(s, 1, Len(p)) = p

\* ------------------------------------------------------------------------
\* os.path (posixpath) functions used by the script.
rfind(s, c) ==
    LET I == {i \in 1..Len(s) : s[i] = c}
    IN IF I = {} THEN 0 ELSE CHOOSE i \in I : \A j \in I : j <= i

find(s, c) ==
    LET I == {i \in 1..Len(s) : s[i] = c}
    IN IF I = {} THEN 0 ELSE CHOOSE i \in I : \A j \in I : i <= j

AllSlash(s) == \A i \in 1..Len(s) : s[i] = "/"

RECURSIVE rstripSlash(_)
rstripSlash(s) ==
    IF s # <<>> /\ s[Len(s)] = "/" THEN rstripSlash(SubSeq(s, 1, Len(s) - 1)) ELSE s

dirname(p) ==
    LET head == SubSeq(p, 1, rfind(p, "/"))
    IN IF head # <<>> /\ ~AllSlash(head) THEN rstripSlash(head) ELSE head

join(a, b) ==
    IF b # <<>> /\ Head(b) = "/" THEN b
    ELSE IF a = <<>> \/ a[Len(a)] = "/" THEN a \o b
    ELSE a \o <<"/">> \o b

\* splitext: the extension starts at the last dot of the last component,
\* unless only dots precede it in that component.
splitext(p) ==
    LET sepIndex == rfind(p, "/")
        dotIndex == rfind(p, ".")
    IN IF dotIndex > sepIndex /\ \E k \in (sepIndex + 1)..(dotIndex - 1) : p[k] # "."
       THEN <<SubSeq(p, 1, dotIndex - 1), SubSeq(p, dotIndex, Len(p))>>
       ELSE <<p, <<>>>>

RECURSIVE split(_)
split(p) ==
    LET i == find(p, "/")
    IN IF i = 0 THEN <<p>>
       ELSE <<SubSeq(p, 1, i - 1)>> \o split(SubSeq(p, i + 1, Len(p)))

RECURSIVE normcomps(_, _, _)
normcomps(comps, acc, rooted) ==
    IF comps = <<>> THEN acc
    ELSE LET c == Head(comps)
             rest == Tail(comps)
         IN IF c = <<>> \/ c = <<".">> THEN normcomps(rest, acc, rooted)
            ELSE IF \/ c # <<".", ".">>
                    \/ (~rooted /\ acc = <<>>)
                    \/ (acc # <<>> /\ acc[Len(acc)] = <<".", ".">>)
                 THEN normcomps(rest, Append(acc, c), rooted)
            ELSE IF acc # <<>> THEN normcomps(rest, SubSeq(acc, 1, Len(acc) - 1), rooted)
            ELSE normcomps(rest, acc, rooted)

RECURSIVE joinSlash(_)
joinSlash(comps) ==
    IF comps = <<>> THEN <<>>
    ELSE IF Len(comps) = 1 THEN Head(comps)
    ELSE Head(comps) \o <<"/">> \o joinSlash(Tail(comps))

normpath(p) ==
    IF p = <<>> THEN <<".">>
    ELSE LET slashes == IF ~startswith(p, <<"/">>) THEN <<>>
                        ELSE IF startswith(p, <<"/", "/">>) /\ ~startswith(p, <<"/", "/", "/">>)
                             THEN <<"/", "/">>
                        ELSE <<"/">>
             path == slashes \o joinSlash(normcomps(split(p), <<>>, slashes # <<>>))
         IN IF path = <<>> THEN <<".">> ELSE path

\* The directory the script is started in, and the directory that holds it.
Cwd == <<"/", "w">>
ScriptDir == <<"/", "s">>

\* realpath on a file system without symbolic links: abspath.
realpath(p) == normpath(join(Cwd, p))

\* ------------------------------------------------------------------------
\* The file system the run starts in: regular files and directories, by their
\* absolute normalised path.  ./ffmpeg, ./b/ffmpeg and /b/ffmpeg exist.
Files ==
    { <<"/", "b", "/", "ffmpeg">>,
      <<"/", "b", "/", "ffmpeg", ".", "exe">>,
      <<"/", "w", "/", "b", "/", "ffmpeg">>,
      <<"/", "w", "/", "ffmpeg">> }

InitDirs == { <<"/">>, <<"/", "b">>, <<"/", "w">>, <<"/", "w", "/", "b">>, <<"/", "s">> }

isfile(p) == realpath(p) \in Files

RECURSIVE Ancestors(_)
Ancestors(p) == IF AllSlash(p) THEN {p} ELSE {p} \cup Ancestors(dirname(p))

\* DEFAULT_OUTPUT: the mp3 folder next to the script.
DEFAULT_OUTPUT == join(ScriptDir, <<"mp3">>)

\* ------------------------------------------------------------------------
\* build_ydl_opts: the yt_dlp options of a playlist download.
build_ydl_opts(output_dir, ffmpeg_dir) ==
    [ format |-> "bestaudio/best",
      outtmpl |-> join(join(output_dir, <<"%(playlist_title)s">>),
                       <<"%(title)s", ".", "%(ext)s">>),
      ignoreerrors |-> TRUE,
      progress_hooks |-> <<"progress_hook">>,
      retries |-> 3,
      postprocessors |->
          << [key |-> "FFmpegExtractAudio", preferredcodec |-> "mp3", preferredquality |-> "192"],
             [key |-> "FFmpegMetadata"],
             [key |-> "EmbedThumbnail"] >>,
      writethumbnail |-> TRUE,
      quiet |-> FALSE,
      no_warnings |-> TRUE,
      ffmpeg_location |-> ffmpeg_dir ]

\* Faulty variant: the single-track download is given the playlist options.
build_single_opts_as_playlist(output_dir, ffmpeg_dir) == build_ydl_opts(output_dir, ffmpeg_dir)

\* build_single_opts: the yt_dlp options of a single-track download.
build_single_opts(output_dir, ffmpeg_dir) ==
    [ format |-> "bestaudio/best",
      outtmpl |-> join(output_dir, <<"%(title)s", ".", "%(ext)s">>),
      ignoreerrors |-> FALSE,
      progress_hooks |-> <<"progress_hook">>,
      retries |-> 3,
      postprocessors |->
          << [key |-> "FFmpegExtractAudio", preferredcodec |-> "mp3", preferredquality |-> "192"],
             [key |-> "FFmpegMetadata"],
             [key |-> "EmbedThumbnail"] >>,
      writethumbnail |-> TRUE,
      quiet |-> FALSE,
      no_warnings |-> TRUE,
      ffmpeg_location |-> ffmpeg_dir ]

\* The options of the metadata-only title lookup of download_playlist.
LookupOpts == [quiet |-> TRUE, skip_download |-> TRUE]

\* ydl.prepare_filename(info): the output template with the placeholders of
\* the entry filled in (a field the entry lacks is written NA).
RECURSIVE prepare_filename(_, _)
prepare_filename(outtmpl, info) ==
    IF outtmpl = <<>> THEN <<>>
    ELSE (CASE Head(outtmpl) = "%(title)s" -> info.title
            [] Head(outtmpl) = "%(ext)s" -> info.ext
            [] Head(outtmpl) = "%(playlist_title)s" -> <<"NA">>
            [] OTHER -> <<Head(outtmpl)>>)
         \o prepare_filename(Tail(outtmpl), info)

\* Faulty variant: the prepared file name is returned with its own extension.
single_final_path_as_prepared(filename) == filename

\* The final path of a single-track download: the prepared file name with its
\* extension replaced by .mp3.
single_final_path(filename) == splitext(filename)[1] \o <<".", "mp3">>

\* ------------------------------------------------------------------------
\* Inputs of a run.
ModeAlphabet == {"m", "P", " ", "x"}
ModeLines == StringsUpTo(ModeAlphabet, MaxModeLen)

UrlAlphabet == {" ", "u"}
UrlStrings == StringsUpTo(UrlAlphabet, MaxUrlLen)

\* The positional URL: absent or a string (argparse accepts "" and blanks).
ArgUrls == {None} \cup {Some(u) : u \in UrlStrings}

\* --output: absent (DEFAULT_OUTPUT), a relative directory that does not exist,
\* a directory that exists, a path that is a regular file.
ArgOutputs == { DEFAULT_OUTPUT, <<"o", "/", "n">>, <<"/", "b">>, <<"/", "b", "/", "ffmpeg">> }

\* --ffmpeg-location: absent, empty, a file (absolute, relative, bare name in
\* the current directory), a directory, a path that does not exist.
ArgFfmpeg ==
    { None, Some(<<>>),
      Some(<<"/", "b", "/", "ffmpeg">>), Some(<<"b", "/", "ffmpeg">>), Some(<<"ffmpeg">>),
      Some(<<"/", "b">>), Some(<<"/", "x">>) }

\* shutil.which("ffmpeg"): not found, found in a directory of PATH, found
\* through an empty PATH entry (the result is then the bare name).
WhichFfmpeg == { None, Some(<<"/", "b", "/", "ffmpeg">>), Some(<<"ffmpeg">>) }
\* shutil.which("ffmpeg.exe").
WhichFfmpegExe == { None, Some(<<"/", "b", "/", "ffmpeg", ".", "exe">>) }

\* What ydl.download([url]) does: raise, or return a code.
DownloadOutcomes == { [raised |-> TRUE, rc |-> 0], [raised |-> FALSE, rc |-> 0], [raised |-> FALSE, rc |-> 1] }

\* What the title lookup does: raise, return no info, an info without title,
\* with an empty title, with a title, with a title that is an absolute path.
TitleLookups ==
    { [raised |-> TRUE, info |-> FALSE, title |-> None],
      [raised |-> FALSE, info |-> FALSE, title |-> None],
      [raised |-> FALSE, info |-> TRUE, title |-> None],
      [raised |-> FALSE, info |-> TRUE, title |-> Some(<<>>)],
      [raised |-> FALSE, info |-> TRUE, title |-> Some(<<"T">>)],
      [raised |-> FALSE, info |-> TRUE, title |-> Some(<<"/", "e">>)] }

\* What ydl.extract_info(url, download=True) does: raise, return no info, or
\* return the entry (title and container extension).
ExtractOutcomes ==
    { [raised |-> TRUE, info |-> FALSE, title |-> <<>>, ext |-> <<>>],
      [raised |-> FALSE, info |-> FALSE, title |-> <<>>, ext |-> <<>>] }
    \cup { [raised |-> FALSE, info |-> TRUE, title |-> t, ext |-> e] :
             t \in { <<"t">>, <<"a", ".", "b">>, <<".", "h">> }, e \in { <<"webm">>, <<"mp3">> } }

\* A line read from standard input by input().
Unread == [st |-> "unread", line |-> <<>>]
Eof == [st |-> "eof", line |-> <<>>]
Line(s) == [st |-> "line", line |-> s]

\* ------------------------------------------------------------------------
VARIABLES
    pc,               \* position in the script
    parse,            \* outcome of parse_args: pending, ok, help, error
    args,             \* the argparse Namespace
    stdin_mode,       \* what the mode prompt read
    selection,        \* selection
    download_mode,    \* download_mode
    stdin_url,        \* what the URL prompt read
    base_output,      \* base_output
    ffmpeg_location,  \* ffmpeg_location
    which_log,        \* the shutil.which calls made, with their results
    dirs,             \* the directories of the file system
    calls,            \* the calls of download_playlist / download_single_music
    lib_calls,        \* the calls into yt_dlp
    result,           \* what the download function returned
    exit_code,        \* {} while running, then the exit code
    stdout,
    stderr

vars == << pc, parse, args, stdin_mode, selection, download_mode, stdin_url, base_output,
           ffmpeg_location, which_log, dirs, calls, lib_calls, result, exit_code,
           stdout, stderr >>

Init ==
    /\ pc = "parse_args"
    /\ parse = "pending"
    /\ args = [playlist_url |-> None, output |-> DEFAULT_OUTPUT, ffmpeg_location |-> None]
    /\ stdin_mode = Unread
    /\ selection = <<>>
    /\ download_mode = "unset"
    /\ stdin_url = Unread
    /\ base_output = <<>>
    /\ ffmpeg_location = None
    /\ which_log = <<>>
    /\ dirs = InitDirs
    /\ calls = <<>>
    /\ lib_calls = <<>>
    /\ result = None
    /\ exit_code = {}
    /\ stdout = <<>>
    /\ stderr = <<>>

\* sys.exit(code), the end of the script (code 0), or an uncaught exception
\* (code 1, after the traceback).
Exit(code) == exit_code' = {code} /\ pc' = "done"

\* ------------------------------------------------------------------------
\* parse_args returns the Namespace.
ParseArgs ==
    /\ pc = "parse_args"
    /\ \E url \in ArgUrls, out \in ArgOutputs, ff \in ArgFfmpeg :
          args' = [playlist_url |-> url, output |-> out, ffmpeg_location |-> ff]
    /\ parse' = "ok"
    /\ pc' = "read_selection"
    /\ UNCHANGED << stdin_mode, selection, download_mode, stdin_url, base_output,
                    ffmpeg_location, which_log, dirs, calls, lib_calls, result, exit_code,
                    stdout, stderr >>

\* -h / --help: argparse prints the help and exits 0.
ParseArgsHelp ==
    /\ pc = "parse_args"
    /\ parse' = "help"
    /\ stdout' = Append(stdout, "help")
    /\ Exit(0)
    /\ UNCHANGED << args, stdin_mode, selection, download_mode, stdin_url, base_output,
                    ffmpeg_location, which_log, dirs, calls, lib_calls, result, stderr >>

\* An argument argparse rejects: usage message on stderr, exit 2.
ParseArgsError ==
    /\ pc = "parse_args"
    /\ parse' = "error"
    /\ stderr' = Append(stderr, "usage")
    /\ Exit(2)
    /\ UNCHANGED << args, stdin_mode, selection, download_mode, stdin_url, base_output,
                    ffmpeg_location, which_log, dirs, calls, lib_calls, result, stdout >>

\* selection = input(...).strip().lower(), "" at end of input.
selection_of(in) == IF in.st = "eof" THEN <<>> ELSE lower(strip(in.line))

\* Faulty variant: the letter is looked for anywhere in the selection.
select_mode_anywhere(sel) ==
    IF \E i \in DOMAIN sel : sel[i] = "m" THEN "music"
    ELSE IF \E i \in DOMAIN sel : sel[i] = "p" THEN "playlist"
    ELSE "invalid"

\* The mode chosen from the selection: music, playlist, or invalid.
select_mode(sel) ==
    IF startswith(sel, <<"m">>) THEN "music"
    ELSE IF startswith(sel, <<"p">>) THEN "playlist"
    ELSE "invalid"

\* The mode prompt and the choice of download_mode.
ReadSelection ==
    /\ pc = "read_selection"
    /\ \E in \in {Eof} \cup {Line(l) : l \in ModeLines} :
          /\ stdin_mode' = in
          /\ selection' = selection_of(in)
    /\ IF select_mode(selection') = "invalid"
       THEN /\ stderr' = Append(stderr, "invalid_option")
            /\ Exit(1)
            /\ UNCHANGED download_mode
       ELSE /\ download_mode' = select_mode(selection')
            /\ pc' = IF Truthy(args.playlist_url) THEN "validate_url" ELSE "prompt_url"
            /\ UNCHANGED << stderr, exit_code >>
    /\ UNCHANGED << parse, args, stdin_url, base_output, ffmpeg_location, which_log, dirs,
                    calls, lib_calls, result, stdout >>

\* args.playlist_url as read from the URL prompt.
prompted_url(in) == IF in.st = "eof" THEN <<>> ELSE strip(in.line)

\* The URL prompt, shown when no URL came on the command line.
PromptUrl ==
    /\ pc = "prompt_url"
    /\ \E in \in {Eof} \cup {Line(l) : l \in UrlStrings} :
          /\ stdin_url' = in
          /\ args' = [args EXCEPT !.playlist_url = Some(prompted_url(in))]
    /\ pc' = "validate_url"
    /\ UNCHANGED << parse, stdin_mode, selection, download_mode, base_output, ffmpeg_location,
                    which_log, dirs, calls, lib_calls, result, exit_code, stdout, stderr >>

\* not args.playlist_url
url_missing(url) == ~Truthy(url)

\* The validation of the URL, then base_output.
ValidateUrl ==
    /\ pc = "validate_url"
    /\ IF url_missing(args.playlist_url)
       THEN /\ stderr' = Append(stderr, "url_missing")
            /\ Exit(1)
            /\ UNCHANGED base_output
       ELSE /\ base_output' = realpath(args.output)
            /\ pc' = "makedirs"
            /\ UNCHANGED << stderr, exit_code >>
    /\ UNCHANGED << parse, args, stdin_mode, selection, download_mode, stdin_url,
                    ffmpeg_location, which_log, dirs, calls, lib_calls, result, stdout >>

\* Faulty variant: only the parents of the path are created.
makedirs_parents_only(d, path) == d \cup Ancestors(dirname(path))

\* The directories after os.makedirs(path, exist_ok=True) succeeded.
makedirs(d, path) == d \cup Ancestors(path)

\* os.makedirs(base_output, exist_ok=True); it raises when the path or one of
\* its parents is a regular file, and nothing catches that.
MakeDirs ==
    /\ pc = "makedirs"
    /\ IF Ancestors(base_output) \cap Files # {}
       THEN /\ stderr' = Append(stderr, "traceback")
            /\ Exit(1)
            /\ UNCHANGED dirs
       ELSE /\ dirs' = makedirs(dirs, base_output)
            /\ pc' = "resolve_ffmpeg"
            /\ UNCHANGED << stderr, exit_code >>
    /\ UNCHANGED << parse, args, stdin_mode, selection, download_mode, stdin_url, base_output,
                    ffmpeg_location, which_log, calls, lib_calls, result, stdout >>

\* Faulty variant: a hint that is not a file is dropped.
resolve_hint_files_only(hint) ==
    IF Truthy(hint) /\ isfile(hint.val) THEN Some(dirname(hint.val)) ELSE None

\* ffmpeg_location after the file test: the directory of a file, else the hint.
resolve_hint(hint) ==
    IF Truthy(hint) /\ isfile(hint.val) THEN Some(dirname(hint.val)) ELSE hint

\* Whether the script goes on to search PATH.
needs_search(loc) == ~Truthy(loc)

ResolveFfmpeg ==
    /\ pc = "resolve_ffmpeg"
    /\ ffmpeg_location' = resolve_hint(args.ffmpeg_location)
    /\ pc' = IF needs_search(ffmpeg_location') THEN "search_path" ELSE "check_ffmpeg"
    /\ UNCHANGED << parse, args, stdin_mode, selection, download_mode, stdin_url, base_output,
                    which_log, dirs, calls, lib_calls, result, exit_code, stdout, stderr >>

\* The shutil.which calls of `which("ffmpeg") or which("ffmpeg.exe")`.
which_calls(r1, r2) ==
    IF Truthy(r1) THEN << [name |-> "ffmpeg", found |-> r1] >>
    ELSE << [name |-> "ffmpeg", found |-> r1], [name |-> "ffmpeg.exe", found |-> r2] >>

\* ffmpeg_location after the search: the directory of what was found.
location_found(loc, found) == IF Truthy(found) THEN Some(dirname(found.val)) ELSE loc

SearchPath ==
    /\ pc = "search_path"
    /\ \E r1 \in WhichFfmpeg, r2 \in WhichFfmpegExe :
          /\ which_log' = which_log \o which_calls(r1, r2)
          /\ ffmpeg_location' = location_found(ffmpeg_location, Or(r1, r2))
    /\ pc' = "check_ffmpeg"
    /\ UNCHANGED << parse, args, stdin_mode, selection, download_mode, stdin_url, base_output,
                    dirs, calls, lib_calls, result, exit_code, stdout, stderr >>

\* Faulty variant: the unresolved-FFmpeg exit is never taken.
ffmpeg_unresolved_never(loc) == FALSE

\* not ffmpeg_location
ffmpeg_unresolved(loc) == ~Truthy(loc)

CheckFfmpeg ==
    /\ pc = "check_ffmpeg"
    /\ IF ffmpeg_unresolved(ffmpeg_location)
       THEN /\ stderr' = Append(stderr, "ffmpeg_not_found")
            /\ Exit(1)
       ELSE /\ pc' = "download"
            /\ UNCHANGED << stderr, exit_code >>
    /\ UNCHANGED << parse, args, stdin_mode, selection, download_mode, stdin_url, base_output,
                    ffmpeg_location, which_log, dirs, calls, lib_calls, result, stdout >>

\* The download function the script calls for a mode.
download_function(mode) ==
    IF mode = "playlist" THEN "download_playlist" ELSE "download_single_music"

\* The call of a download function with (url, base_output, ffmpeg_location).
Call(fn) ==
    [ fn |-> fn, url |-> args.playlist_url.val, output_dir |-> base_output,
      ffmpeg_location |-> ffmpeg_location.val ]

\* A call into yt_dlp, with what it did.
LibCall(api, opts, url, download, outcome) ==
    [ api |-> api, opts |-> opts, url |-> url, download |-> download, outcome |-> outcome ]

\* Faulty variant: a non-zero return code counts as a failure too.
playlist_fails_on_code(o) == o.raised \/ o.rc # 0

\* What download_playlist returns for the outcome of its download block:
\* None when it raised, else it goes on to the title lookup.
playlist_fails(o) == o.raised

\* download_playlist up to the warning: the options, the guarded
\* ydl.download([playlist_url]), the warning on a non-zero code.
DownloadPlaylist ==
    /\ pc = "download"
    /\ download_function(download_mode) = "download_playlist"
    /\ calls' = Append(calls, Call("download_playlist"))
    /\ stdout' = Append(stdout, "start_playlist")
    /\ \E o \in DownloadOutcomes :
          /\ lib_calls' = Append(lib_calls,
                                 LibCall("download",
                                         build_ydl_opts(base_output, ffmpeg_location.val),
                                         args.playlist_url.val, TRUE, o))
          /\ IF playlist_fails(o)
             THEN /\ stderr' = Append(stderr, "playlist_error")
                  /\ result' = None
                  /\ pc' = "report"
             ELSE /\ stderr' = IF o.rc # 0 THEN Append(stderr, "some_failed") ELSE stderr
                  /\ pc' = "playlist_title"
                  /\ UNCHANGED result
    /\ UNCHANGED << parse, args, stdin_mode, selection, download_mode, stdin_url, base_output,
                    ffmpeg_location, which_log, dirs, exit_code >>

\* playlist_title: info.get("title") or "playlist", "playlist" when the lookup
\* raised (info.get raises when there is no info).
playlist_title(l) ==
    IF l.raised \/ ~l.info THEN <<"playlist">>
    ELSE IF Truthy(l.title) THEN l.title.val
    ELSE <<"playlist">>

\* final_path of download_playlist.
playlist_final_path(output_dir, title) == Some(realpath(join(output_dir, title)))

\* download_playlist from the title lookup to its return.
PlaylistTitle ==
    /\ pc = "playlist_title"
    /\ \E l \in TitleLookups :
          /\ lib_calls' = Append(lib_calls,
                                 LibCall("extract_info", LookupOpts, args.playlist_url.val,
                                         FALSE, l))
          /\ result' = playlist_final_path(calls[Len(calls)].output_dir, playlist_title(l))
    /\ pc' = "report"
    /\ UNCHANGED << parse, args, stdin_mode, selection, download_mode, stdin_url, base_output,
                    ffmpeg_location, which_log, dirs, calls, exit_code, stdout, stderr >>

\* What download_single_music returns for the outcome of extract_info.
single_result(opts, o) ==
    IF o.raised \/ ~o.info THEN None
    ELSE Some(realpath(single_final_path(prepare_filename(opts.outtmpl, o))))

\* download_single_music.
DownloadSingle ==
    /\ pc = "download"
    /\ download_function(download_mode) = "download_single_music"
    /\ calls' = Append(calls, Call("download_single_music"))
    /\ stdout' = Append(stdout, "start_music")
    /\ LET opts == build_single_opts(base_output, ffmpeg_location.val)
       IN \E o \in ExtractOutcomes :
                /\ lib_calls' = Append(lib_calls,
                                       LibCall("extract_info", opts, args.playlist_url.val,
                                               TRUE, o))
                /\ result' = single_result(opts, o)
                /\ stderr' = IF Truthy(result') THEN stderr
                             ELSE Append(stderr, "single_error")
    /\ pc' = "report"
    /\ UNCHANGED << parse, args, stdin_mode, selection, download_mode, stdin_url, base_output,
                    ffmpeg_location, which_log, dirs, exit_code >>

\* Faulty variant: the result of the download function is not looked at.
report_exit_ignoring_result(res) == 0

\* The exit code after a download function returned res.
report_exit(res) == IF Truthy(res) THEN 0 ELSE 1

\* The end of the script: the saved-in message, or sys.exit(1).
Report ==
    /\ pc = "report"
    /\ stdout' = IF report_exit(result) = 0
                 THEN Append(stdout, IF download_mode = "playlist" THEN "saved_dir"
                                     ELSE "saved_file")
                 ELSE stdout
    /\ Exit(report_exit(result))
    /\ UNCHANGED << parse, args, stdin_mode, selection, download_mode, stdin_url, base_output,
                    ffmpeg_location, which_log, dirs, calls, lib_calls, result, stderr >>

Next ==
    \/ ParseArgs
    \/ ParseArgsHelp
    \/ ParseArgsError
    \/ ReadSelection
    \/ PromptUrl
    \/ ValidateUrl
    \/ MakeDirs
    \/ ResolveFfmpeg
    \/ SearchPath
    \/ CheckFfmpeg
    \/ DownloadPlaylist
    \/ PlaylistTitle
    \/ DownloadSingle
    \/ Report

Spec == Init /\ [][Next]_vars

\* ------------------------------------------------------------------------
\* Vocabulary of the properties.
Terminated == pc = "done"
LastErr == IF stderr = <<>> THEN "" ELSE stderr[Len(stderr)]
Called == calls # <<>>
ReturnedPath == Called /\ Truthy(result)
Blank(s) == strip(s) = <<>>
DotMp3 == <<".", "mp3">>
endswith(s, p) == Len(s) >= Len(p) /\ SubSeq(s, Len(s) - Len(p) + 1, Len(s)) = p

\* C1, as stated: for every run, the exit code is 0 exactly when the download
\* function of the mode was called and returned a path, and 1 in the four
\* other terminations (invalid mode, missing URL, unresolved FFmpeg, a
\* download function returning None).
C1_ExitZeroIffPath ==
    Terminated =>
        /\ (exit_code = {0}) <=> ReturnedPath
        /\ (LastErr \in {"invalid_option", "url_missing", "ffmpeg_not_found"}
              \/ (Called /\ result = None)) => exit_code = {1}

\* C1, amended: the same for every run whose command line argparse accepts;
\* a --help run exits 0 and a rejected command line exits 2, neither having
\* called a download function.
C1_ExitCodeOfParsedRun ==
    Terminated =>
        /\ parse = "ok" =>
              /\ (exit_code = {0}) <=> ReturnedPath
              /\ (LastErr \in {"invalid_option", "url_missing", "ffmpeg_not_found"}
                    \/ (Called /\ result = None)) => exit_code = {1}
              /\ exit_code \in {{0}, {1}}
        /\ parse = "help" => exit_code = {0} /\ ~Called /\ lib_calls = <<>>
        /\ parse = "error" => exit_code = {2} /\ ~Called /\ lib_calls = <<>>

C1_Witness ==
    /\ Terminated /\ parse = "ok" /\ exit_code = {0}
    /\ ReturnedPath /\ Len(lib_calls) = 2

\* C2: with no --ffmpeg-location and no ffmpeg found on PATH, no download
\* function and no yt_dlp entry point is ever called, and the run exits 1.
C2_NoFfmpegNoDownload ==
    ( /\ parse = "ok"
      /\ args.ffmpeg_location = None
      /\ \A i \in DOMAIN which_log : ~Truthy(which_log[i].found) )
    => /\ ~Called
       /\ lib_calls = <<>>
       /\ Terminated => exit_code = {1}

C2_Witness ==
    /\ Terminated /\ args.ffmpeg_location = None
    /\ Len(which_log) = 2
    /\ \A i \in DOMAIN which_log : ~Truthy(which_log[i].found)
    /\ LastErr = "ffmpeg_not_found" /\ exit_code = {1} /\ ~Called
    /\ base_output \in dirs

\* The URL of the run is blank: the URL prompt read a blank line or end of
\* input, or no prompt was shown and the positional URL is blank.
UrlDecided == download_mode # "unset" /\ pc \notin {"prompt_url", "validate_url"}
UrlBlank ==
    IF stdin_url.st = "unread" THEN Blank(args.playlist_url.val)
    ELSE stdin_url.st = "eof" \/ Blank(stdin_url.line)

\* C3: an empty or whitespace-only URL, positional or typed at the prompt
\* (end of input included), is treated as missing: exit 1, a message on
\* stderr, no output directory created, no download function called.
C3_BlankUrlIsMissing ==
    (UrlDecided /\ UrlBlank) =>
        /\ dirs = InitDirs
        /\ ~Called /\ lib_calls = <<>>
        /\ Terminated => exit_code = {1} /\ LastErr = "url_missing"

\* C4, as stated: single-track mode is selected only if the typed string,
\* case aside, has prefix "m", playlist mode only if it has prefix "p"; every
\* other input, empty input and end of input included, ends the run with
\* exit 1 before the URL prompt, the directory creation, the FFmpeg lookup
\* and any download call.
C4_PrefixOfTypedLine ==
    stdin_mode.st # "unread" =>
        LET typed == lower(stdin_mode.line)
            m == stdin_mode.st = "line" /\ startswith(typed, <<"m">>)
            p == stdin_mode.st = "line" /\ startswith(typed, <<"p">>)
        IN /\ download_mode = "music" => m
           /\ download_mode = "playlist" => p
           /\ ~(m \/ p) =>
                 /\ Terminated /\ exit_code = {1}
                 /\ stdin_url.st = "unread" /\ dirs = InitDirs /\ which_log = <<>>
                 /\ ~Called /\ lib_calls = <<>>

\* C4, amended: the same of the typed string once surrounding whitespace is
\* trimmed (case aside).
C4_PrefixOfTrimmedLine ==
    stdin_mode.st # "unread" =>
        LET typed == lower(strip(stdin_mode.line))
            m == stdin_mode.st = "line" /\ startswith(typed, <<"m">>)
            p == stdin_mode.st = "line" /\ startswith(typed, <<"p">>)
        IN /\ download_mode = "music" => m
           /\ download_mode = "playlist" => p
           /\ ~(m \/ p) =>
                 /\ Terminated /\ exit_code = {1}
                 /\ stdin_url.st = "unread" /\ dirs = InitDirs /\ which_log = <<>>
                 /\ ~Called /\ lib_calls = <<>>

C4_Witness ==
    /\ stdin_mode = Line(<<" ", "P">>) /\ download_mode = "playlist"
    /\ Terminated /\ exit_code = {0}

C6_SingleResult ==
    (Called /\ calls[1].fn = "download_single_music" /\ pc \in {"report", "done"}) =>
        LET o == lib_calls[1].outcome
            raises == o.raised \/ ~o.info
            name == prepare_filename(lib_calls[1].opts.outtmpl, o)
        IN /\ Len(lib_calls) = 1
           /\ ~raises =>
                 /\ Truthy(result)
                 /\ endswith(result.val, DotMp3)
                 /\ endswith(name, <<".">> \o o.ext)
                 /\ result.val = realpath(SubSeq(name, 1, Len(name) - Len(o.ext) - 1) \o DotMp3)
                 /\ Terminated => exit_code = {0}
           /\ raises =>
                 /\ result = None
                 /\ LastErr = "single_error"
                 /\ Terminated => exit_code = {1}

C6_Witness ==
    /\ Terminated /\ Called /\ calls[1].fn = "download_single_music"
    /\ lib_calls[1].outcome.info /\ lib_calls[1].outcome.ext = <<"webm">>
    /\ endswith(result.val, DotMp3) /\ exit_code = {0}

\* C7: the output directory exists before FFmpeg is resolved and before any
\* download or yt_dlp call, and it exists when the run ends after a download
\* (path or None) or on the unresolved-FFmpeg exit.
C7_OutputDirExists ==
    LET D == realpath(args.output)
    IN /\ ( \/ pc \in {"resolve_ffmpeg", "search_path", "check_ffmpeg", "download",
                       "playlist_title", "report"}
            \/ which_log # <<>> \/ Called \/ lib_calls # <<>> )
          => base_output = D /\ D \in dirs
       /\ (Terminated /\ (Called \/ LastErr = "ffmpeg_not_found")) => D \in dirs

C7_Witness ==
    /\ Terminated /\ LastErr = "ffmpeg_not_found"
    /\ args.output = <<"o", "/", "n">>
    /\ realpath(args.output) \in dirs \ InitDirs

\* C8: given --ffmpeg-location naming an existing file (absolute, relative, or
\* a bare name in the current directory), the directory passed to the
\* download function is the parent directory of that file, PATH is not
\* searched, and the run does not end on the FFmpeg-not-found error.
C8_FileHintGivesParent ==
    (parse = "ok" /\ Truthy(args.ffmpeg_location) /\ isfile(args.ffmpeg_location.val)) =>
        /\ which_log = <<>>
        /\ LastErr # "ffmpeg_not_found"
        /\ Called => realpath(calls[1].ffmpeg_location)
                       = dirname(realpath(args.ffmpeg_location.val))

\* FFmpeg resolution is over.
Resolved == pc \in {"check_ffmpeg", "download", "playlist_title", "report"} \/ Called
            \/ (Terminated /\ LastErr = "ffmpeg_not_found")
HintIsFile == Truthy(args.ffmpeg_location) /\ isfile(args.ffmpeg_location.val)
Hits == {i \in DOMAIN which_log : Truthy(which_log[i].found)}

\* C9, as stated: whenever --ffmpeg-location is not a file (absent, a
\* directory, a path that does not exist), PATH is searched for ffmpeg and the
\* directory passed to the download function is the one that holds the binary
\* found; when none is found the run exits 1 without a download.
C9_NonFileHintSearchesPath ==
    (parse = "ok" /\ ~HintIsFile /\ Resolved) =>
        /\ which_log # <<>>
        /\ Called => \E i \in Hits :
                        calls[1].ffmpeg_location = dirname(which_log[i].found.val)
        /\ Hits = {} => ~Called /\ (Terminated => exit_code = {1})

\* C9, amended: PATH is searched (ffmpeg, then ffmpeg.exe) when
\* --ffmpeg-location is absent or empty; the directory passed on is the
\* dirname of the hit, and the run exits 1 without a download when nothing is
\* found or that dirname is empty.  A non-empty --ffmpeg-location that is not
\* a file (a directory, a path that does not exist) is passed on as it is:
\* PATH is not searched and the FFmpeg-not-found exit is not taken.
C9_ResolutionOfNonFileHint ==
    (parse = "ok" /\ ~HintIsFile /\ Resolved) =>
        IF ~Truthy(args.ffmpeg_location)
        THEN /\ which_log # <<>>
             /\ which_log[1].name = "ffmpeg"
             /\ Len(which_log) = (IF Truthy(which_log[1].found) THEN 1 ELSE 2)
             /\ Len(which_log) = 2 => which_log[2].name = "ffmpeg.exe"
             /\ Called => /\ Hits # {}
                          /\ calls[1].ffmpeg_location
                               = dirname(which_log[Len(which_log)].found.val)
             /\ (Hits = {} \/ dirname(which_log[Len(which_log)].found.val) = <<>>)
                   => /\ ~Called /\ lib_calls = <<>>
                      /\ Terminated => exit_code = {1} /\ LastErr = "ffmpeg_not_found"
        ELSE /\ which_log = <<>>
             /\ LastErr # "ffmpeg_not_found"
             /\ Called => calls[1].ffmpeg_location = args.ffmpeg_location.val

C9_Witness ==
    /\ Terminated /\ Called
    /\ args.ffmpeg_location = Some(<<"/", "x">>)
    /\ calls[1].ffmpeg_location = <<"/", "x">>
    /\ which_log = <<>>

\* The fields on which the two configurations differ, blanked.
SharedFields(o) == [o EXCEPT !.outtmpl = <<>>, !.ignoreerrors = FALSE]

\* C10: at most one download function is called, once, and it is the one of
\* the mode; the playlist configuration tolerates errors and writes into a
\* folder per playlist title, the single-track one does not tolerate errors
\* and writes one file; on every other field (best audio, 3 retries, MP3 at
\* 192, metadata and thumbnail embedding, progress hook, FFmpeg location) the
\* two agree.
C10_ConfigMatchesMode ==
    /\ Len(calls) <= 1
    /\ Called =>
          LET c == calls[1]
              o == lib_calls[1].opts
              playlist == download_mode = "playlist"
          IN /\ c.fn = (IF playlist THEN "download_playlist" ELSE "download_single_music")
             /\ c.output_dir = base_output /\ c.ffmpeg_location = ffmpeg_location.val
             /\ lib_calls[1].api = (IF playlist THEN "download" ELSE "extract_info")
             /\ lib_calls[1].download
             /\ \A i \in DOMAIN lib_calls : i > 1 => lib_calls[i].opts = LookupOpts
             /\ o.ignoreerrors = playlist
             /\ o.outtmpl = c.output_dir
                              \o (IF playlist THEN <<"/", "%(playlist_title)s">> ELSE <<>>)
                              \o <<"/", "%(title)s", ".", "%(ext)s">>
             /\ o.format = "bestaudio/best"
             /\ o.retries = 3
             /\ o.postprocessors[1] = [key |-> "FFmpegExtractAudio", preferredcodec |-> "mp3",
                                       preferredquality |-> "192"]
             /\ {o.postprocessors[i].key : i \in DOMAIN o.postprocessors}
                  = {"FFmpegExtractAudio", "FFmpegMetadata", "EmbedThumbnail"}
             /\ o.writethumbnail
             /\ o.progress_hooks = <<"progress_hook">>
             /\ o.ffmpeg_location = c.ffmpeg_location
             /\ SharedFields(build_ydl_opts(c.output_dir, c.ffmpeg_location))
                  = SharedFields(build_single_opts(c.output_dir, c.ffmpeg_location))

C10_Witness ==
    /\ Terminated /\ Called /\ download_mode = "music"
    /\ calls[1].fn = "download_single_music"
    /\ ~lib_calls[1].opts.ignoreerrors

====
